---- MODULE Spec2Model ----
(***************************************************************************)
(* A model of the stub-DSL front end of coctus: the tokenizer and the      *)
(* hand-written parser of src/stub/parser.rs, and the identifier           *)
(* transformation of src/stub/language.rs.                                 *)
(*                                                                         *)
(* A Rust string is modelled as a sequence of one-character strings, so    *)
(* that replace, split, join and the regular expressions are computed on   *)
(* characters, as the code computes them.                                  *)
(***************************************************************************)
EXTENDS Integers, Sequences, FiniteSets, TLC

\* ------------------------------------------------------------------------
\* Bounds of the model
\* ------------------------------------------------------------------------

\* largest number of pieces concatenated into a free-form DSL text
MaxPieces == 3

\* largest number of variables in a generated variable list
MaxVars == 2

\* largest number of lines of a generated text block or INPUT section
MaxLines == 2

\* ------------------------------------------------------------------------
\* Strings as sequences of characters
\* ------------------------------------------------------------------------

\* the characters of a string literal
S(str) == [i \in 1..Len(str) |-> SubSeq(str, i, i)]

SP == " "
NL == "\n"

LowerChars == S("abcdefghijklmnopqrstuvwxyz")
UpperChars == S("ABCDEFGHIJKLMNOPQRSTUVWXYZ")
DigitChars == S("0123456789")

Range(f) == {f[i] : i \in DOMAIN f}

IsLower(c) == c \in Range(LowerChars)
IsUpper(c) == c \in Range(UpperChars)
IsDigit(c) == c \in Range(DigitChars)

IndexIn(c, chars) == CHOOSE i \in DOMAIN chars : chars[i] = c

\* char::to_lowercase / char::to_uppercase on the ASCII letters
CharToLower(c) == IF IsUpper(c) THEN LowerChars[IndexIn(c, UpperChars)] ELSE c
CharToUpper(c) == IF IsLower(c) THEN UpperChars[IndexIn(c, LowerChars)] ELSE c

\* str::to_lowercase / str::to_uppercase
to_lowercase(s) == [i \in DOMAIN s |-> CharToLower(s[i])]
to_uppercase(s) == [i \in DOMAIN s |-> CharToUpper(s[i])]

\* s[i..] (1-based, i may be Len(s)+1)
From(s, i) == SubSeq(s, i, Len(s))

\* pat occurs in s at position i
MatchAt(s, i, pat) ==
    /\ i >= 1
    /\ i + Len(pat) - 1 <= Len(s)
    /\ SubSeq(s, i, i + Len(pat) - 1) = pat

\* str::contains
contains(s, pat) == \E i \in 1..(Len(s) + 1) : MatchAt(s, i, pat)

\* str::replace: every non-overlapping occurrence of from, found left to
\* right, is replaced by to (from is not empty)
RECURSIVE replace_from(_, _, _, _)
replace_from(s, i, from, to) ==
    IF i > Len(s) THEN <<>>
    ELSE IF MatchAt(s, i, from)
         THEN to \o replace_from(s, i + Len(from), from, to)
         ELSE <<s[i]>> \o replace_from(s, i + 1, from, to)

replace(s, from, to) == replace_from(s, 1, from, to)

\* str::split on a one-character separator: the pieces between the
\* separators, empty pieces included
RECURSIVE split_from(_, _, _, _)
split_from(s, i, sep, cur) ==
    IF i > Len(s) THEN <<cur>>
    ELSE IF s[i] = sep
         THEN <<cur>> \o split_from(s, i + 1, sep, <<>>)
         ELSE split_from(s, i + 1, sep, Append(cur, s[i]))

split(s, sep) == split_from(s, 1, sep, <<>>)

\* [String]::join
RECURSIVE join(_, _)
join(strs, sep) ==
    IF Len(strs) = 0 THEN <<>>
    ELSE IF Len(strs) = 1 THEN strs[1]
    ELSE strs[1] \o sep \o join(Tail(strs), sep)

\* the concatenation of a sequence of strings
Cat(strs) == join(strs, <<>>)

\* str::strip_suffix: <<rest>> when s ends with suf, <<>> (None) otherwise
strip_suffix(s, suf) ==
    IF Len(s) >= Len(suf) /\ MatchAt(s, Len(s) - Len(suf) + 1, suf)
    THEN <<SubSeq(s, 1, Len(s) - Len(suf))>>
    ELSE <<>>

\* ------------------------------------------------------------------------
\* Data model (src/stub: T, Var, Cmd, InputComment, Stub)
\* ------------------------------------------------------------------------

\* Option<T>: None is <<>>, Some(x) is <<x>>
None == <<>>
Some(x) == <<x>>

\* enum T
T == {"Int", "Float", "Long", "Bool", "Word", "String"}

\* Var::new(name, type): a variable without a length
VarNew(name, t) == [name |-> name, type |-> t, max_length |-> None]

\* Var::new_length(name, type, max_length): a variable with a length
VarNewLength(name, t, len) == [name |-> name, type |-> t, max_length |-> Some(len)]

\* Cmd::Read, Cmd::Write, Cmd::Loop, Cmd::LoopLine
Read(variables) == [cmd |-> "Read", variables |-> variables]
Write(message) == [cmd |-> "Write", message |-> message]
Loop(cnt, command) == [cmd |-> "Loop", count |-> cnt, command |-> command]
LoopLine(obj, variables) == [cmd |-> "LoopLine", object |-> obj, variables |-> variables]

\* InputComment::new(variable, description)
InputCommentNew(var, description) == [variable_name |-> var, comment_text |-> description]

\* Stub::new()
StubNew ==
    [commands |-> <<>>, input_comments |-> <<>>,
     output_comment |-> <<>>, statement |-> <<>>]

\* a panic of the process: the message of the panic! / expect and the
\* value formatted into it
Panic(msg, arg) == [msg |-> msg, arg |-> arg]

\* ------------------------------------------------------------------------
\* parse_variable (src/stub/parser.rs)
\* ------------------------------------------------------------------------

\* the longest run of digits of s that starts at position i
RECURSIVE DigitRun(_, _)
DigitRun(s, i) ==
    IF i <= Len(s) /\ IsDigit(s[i]) THEN <<s[i]>> \o DigitRun(s, i + 1) ELSE <<>>

\* Regex (word|string)\((\d+)\) matched at position i of s: the two capture
\* groups, or <<>> when there is no match at i.  \d+ is greedy and must be
\* followed by ")", so it is the whole run of digits.
LengthRegexAt(s, i) ==
    LET try(kw) ==
            LET open == i + Len(kw)
                ds == DigitRun(s, open + 1)
                close == open + 1 + Len(ds)
            IN  IF /\ MatchAt(s, i, kw)
                   /\ open <= Len(s) /\ s[open] = "("
                   /\ Len(ds) >= 1
                   /\ close <= Len(s) /\ s[close] = ")"
                THEN <<kw, ds>>
                ELSE <<>>
        w == try(S("word"))
    IN  IF w /= <<>> THEN w ELSE try(S("string"))

\* Regex::captures: the leftmost match anywhere in s, or <<>> (None)
RECURSIVE LengthRegexFrom(_, _)
LengthRegexFrom(s, i) ==
    IF i > Len(s) THEN <<>>
    ELSE IF LengthRegexAt(s, i) /= <<>> THEN LengthRegexAt(s, i)
    ELSE LengthRegexFrom(s, i + 1)

length_regex_captures(s) == LengthRegexFrom(s, 1)

DigitVal(c) == IndexIn(c, DigitChars) - 1

RECURSIVE DecValue(_)
DecValue(ds) ==
    IF Len(ds) = 0 THEN 0
    ELSE DecValue(SubSeq(ds, 1, Len(ds) - 1)) * 10 + DigitVal(ds[Len(ds)])

RECURSIVE StripZeros(_)
StripZeros(ds) ==
    IF Len(ds) > 1 /\ ds[1] = "0" THEN StripZeros(Tail(ds)) ELSE ds

\* usize::MAX on a 64-bit target
UsizeMaxDigits == S("18446744073709551615")

\* a <= b for two digit strings of the same length
RECURSIVE DigitsLeq(_, _)
DigitsLeq(a, b) ==
    IF Len(a) = 0 THEN TRUE
    ELSE IF DigitVal(a[1]) < DigitVal(b[1]) THEN TRUE
    ELSE IF DigitVal(a[1]) > DigitVal(b[1]) THEN FALSE
    ELSE DigitsLeq(Tail(a), Tail(b))

\* str::parse::<usize>() succeeds on the digits ds
FitsUsize(ds) ==
    LET t == StripZeros(ds)
    IN  \/ Len(t) < Len(UsizeMaxDigits)
        \/ Len(t) = Len(UsizeMaxDigits) /\ DigitsLeq(t, UsizeMaxDigits)

\* the result of a call that may panic
Ok(v) == [ok |-> TRUE, val |-> v]
Err(msg, arg) == [ok |-> FALSE, err |-> Panic(msg, arg)]

\* LengthVar with the length of a word forgotten
LengthVar_NoLength(name, new_type, max_length) ==
    IF new_type = S("word") THEN Ok(VarNew(name, "Word"))
    ELSE IF new_type = S("string") THEN Ok(VarNewLength(name, "String", max_length))
    ELSE Err("Unexpected error", <<>>)

\* match new_type { "word" => ..., "string" => ..., _ => panic! }
LengthVar(name, new_type, max_length) ==
    IF new_type = S("word") THEN Ok(VarNewLength(name, "Word", max_length))
    ELSE IF new_type = S("string") THEN Ok(VarNewLength(name, "String", max_length))
    ELSE Err("Unexpected error", <<>>)

parse_variable(token) ==
    LET iter == split(token, ":")
        name == iter[1]
    IN  IF Len(iter) < 2
        THEN Err("Error in stub generator: missing type", <<>>)
        ELSE
        LET var_type == iter[2]
            length_captures == length_regex_captures(var_type)
        IN  IF var_type = S("int") THEN Ok(VarNew(name, "Int"))
            ELSE IF var_type = S("float") THEN Ok(VarNew(name, "Float"))
            ELSE IF var_type = S("long") THEN Ok(VarNew(name, "Long"))
            ELSE IF var_type = S("bool") THEN Ok(VarNew(name, "Bool"))
            ELSE IF length_captures = <<>>
            THEN Err("Failed to parse variable type for token: {}", token)
            ELSE
            LET new_type == length_captures[1]
                digits == length_captures[2]
            IN  IF ~FitsUsize(digits)
                THEN Err("called Result::unwrap() on an Err value", <<>>)
                ELSE LengthVar(name, new_type, DecValue(digits))

\* ------------------------------------------------------------------------
\* Identifier transformation (src/stub/language.rs)
\* ------------------------------------------------------------------------

\* enum VariableNameFormat
VariableNameFormat == {"SnakeCase", "CamelCase", "PascalCase"}

\* the value of an expression that panics
PANIC == <<"<panic>">>

\* Regex ([a-z])([A-Z]), replace_all with "$1_" and the lowercased $2
RECURSIVE SC_WORD_BREAK_replace(_, _)
SC_WORD_BREAK_replace(s, i) ==
    IF i > Len(s) THEN <<>>
    ELSE IF i < Len(s) /\ IsLower(s[i]) /\ IsUpper(s[i + 1])
         THEN <<s[i], "_", CharToLower(s[i + 1])>> \o SC_WORD_BREAK_replace(s, i + 2)
         ELSE <<s[i]>> \o SC_WORD_BREAK_replace(s, i + 1)

convert_to_snake_case(variable_name) ==
    to_lowercase(SC_WORD_BREAK_replace(variable_name, 1))

\* the length of the run of uppercase letters of s that starts at i
RECURSIVE UpperRun(_, _)
UpperRun(s, i) ==
    IF i <= Len(s) /\ IsUpper(s[i]) THEN 1 + UpperRun(s, i + 1) ELSE 0

\* Regex ([A-Z]*)([A-Z][a-z]), replace_all with the lowercased $1 and $2.
\* A match starts at i when the run of uppercase letters that starts at i
\* is followed by a lowercase letter: $1 is the run but its last letter.
RECURSIVE PC_WORD_BREAK_replace(_, _)
PC_WORD_BREAK_replace(s, i) ==
    IF i > Len(s) THEN <<>>
    ELSE LET r == UpperRun(s, i)
         IN  IF r >= 1 /\ i + r <= Len(s) /\ IsLower(s[i + r])
             THEN to_lowercase(SubSeq(s, i, i + r - 2))
                    \o <<s[i + r - 1], s[i + r]>>
                    \o PC_WORD_BREAK_replace(s, i + r + 1)
             ELSE <<s[i]>> \o PC_WORD_BREAK_replace(s, i + 1)

\* Regex ([A-Z])([A-Z]*$), replace_all with $1 and the lowercased $2: the
\* leftmost match starts at the first i from which s is all uppercase.
RECURSIVE PC_WORD_END_replace(_, _)
PC_WORD_END_replace(s, i) ==
    IF i > Len(s) THEN <<>>
    ELSE IF UpperRun(s, i) = Len(s) - i + 1
         THEN <<s[i]>> \o to_lowercase(From(s, i + 1))
         ELSE <<s[i]>> \o PC_WORD_END_replace(s, i + 1)

pascalize_NoWordEnd(variable_slice) == PC_WORD_BREAK_replace(variable_slice, 1)

pascalize(variable_slice) ==
    LET start_replaced == PC_WORD_BREAK_replace(variable_slice, 1)
    IN  PC_WORD_END_replace(start_replaced, 1)

covert_to_pascal_case_WholeName(variable_name) ==
    IF Len(variable_name) = 0 THEN PANIC
    ELSE to_uppercase(SubSeq(variable_name, 1, 1)) \o pascalize(variable_name)

\* variable_name[0..1] panics on the empty string
covert_to_pascal_case(variable_name) ==
    IF Len(variable_name) = 0 THEN PANIC
    ELSE to_uppercase(SubSeq(variable_name, 1, 1)) \o pascalize(From(variable_name, 2))

covert_to_camel_case_WholeName(variable_name) ==
    IF Len(variable_name) = 0 THEN PANIC
    ELSE to_lowercase(SubSeq(variable_name, 1, 1)) \o pascalize(variable_name)

covert_to_camel_case(variable_name) ==
    IF Len(variable_name) = 0 THEN PANIC
    ELSE to_lowercase(SubSeq(variable_name, 1, 1)) \o pascalize(From(variable_name, 2))

convert(format, variable_name) ==
    CASE format = "SnakeCase" -> convert_to_snake_case(variable_name)
      [] format = "PascalCase" -> covert_to_pascal_case(variable_name)
      [] format = "CamelCase" -> covert_to_camel_case(variable_name)

\* char::is_uppercase on every character; true of the empty string
is_uppercase_string(string) == \A i \in DOMAIN string : IsUpper(string[i])

escape_keywords(lang, variable_name) ==
    IF variable_name \in lang.keywords
    THEN <<"_">> \o variable_name
    ELSE variable_name

converted_variable_name_KeepsUppercase(lang, variable_name) ==
    IF is_uppercase_string(variable_name)
    THEN variable_name
    ELSE convert(lang.variable_format, variable_name)

\* the match on (is_uppercase_string(variable_name), self.allow_uppercase_vars)
converted_variable_name(lang, variable_name) ==
    IF is_uppercase_string(variable_name)
    THEN IF lang.allow_uppercase_vars = Some(FALSE)
         THEN to_lowercase(variable_name)
         ELSE variable_name
    ELSE convert(lang.variable_format, variable_name)

transform_variable_name(lang, variable_name) ==
    escape_keywords(lang, converted_variable_name(lang, variable_name))

\* struct VariableCommand, as the renderer receives a parsed variable
VariableCommandOf(var) ==
    [ident |-> var.name, var_type |-> var.type,
     input_comment |-> <<>>, max_length |-> var.max_length]

transform_variable_command(lang, var) ==
    [ident |-> transform_variable_name(lang, var.ident),
     var_type |-> var.var_type,
     input_comment |-> var.input_comment,
     max_length |-> var.max_length]

\* ------------------------------------------------------------------------
\* The DSL texts the model parses
\* ------------------------------------------------------------------------

\* all sequences of at most n elements of the set X
SeqsUpTo(X, n) == UNION {[1..k -> X] : k \in 0..n}

\* free-form texts: any pieces in any order
Pieces ==
    {S(" "), S("\n"), S("read"), S("write"), S("loop"), S("loopline"),
     S("OUTPUT"), S("N:int"), S("T")}

FreeTexts == {Cat(ps) : ps \in SeqsUpTo(Pieces, MaxPieces)}

\* the parse examples of the specification
ReadWriteExample == S("read N:int\nwrite Hello\n")
LoopExample == S("loop T\nread N:int\n")
LoopLineExample == S("loopline arr N:int M:string(10)\n")
WeirdExample == S("read X:weird\n")

ExampleTexts == {ReadWriteExample, LoopExample, LoopLineExample, WeirdExample}

\* variable tokens: the name, the type token and the variable it stands for
VarDescs ==
    {[name |-> S("N"), type |-> S("int"), var |-> VarNew(S("N"), "Int")],
     [name |-> S("numRows"), type |-> S("long"), var |-> VarNew(S("numRows"), "Long")],
     [name |-> S("x"), type |-> S("float"), var |-> VarNew(S("x"), "Float")],
     [name |-> S("ok"), type |-> S("bool"), var |-> VarNew(S("ok"), "Bool")],
     [name |-> S("W"), type |-> S("word(5)"), var |-> VarNewLength(S("W"), "Word", 5)],
     [name |-> S("M"), type |-> S("string(10)"), var |-> VarNewLength(S("M"), "String", 10)]}

VarToken(d) == d.name \o S(":") \o d.type

VarLists == SeqsUpTo(VarDescs, MaxVars)

\* what may follow a command line, and the commands it adds
RestDescs ==
    {[text |-> S(""), kinds |-> <<>>],
     [text |-> S("write Hello\n"), kinds |-> <<"Write">>],
     [text |-> S("\nloopline o x:int\nread N:int\n"), kinds |-> <<"LoopLine", "Read">>]}

Rests == {r.text : r \in RestDescs}

\* read and loopline lines with a list of well-formed variables
VarLineText(head, ds, rest) ==
    head \o Cat([i \in DOMAIN ds |-> S(" ") \o VarToken(ds[i])]) \o S("\n") \o rest

LoopLineObjects == {S("arr"), S("N:int")}

VarLineHeads == {S("read")} \cup {S("loopline ") \o o : o \in LoopLineObjects}

VarLineTexts ==
    {VarLineText(h, ds, r) : h \in VarLineHeads, ds \in VarLists, r \in Rests}

\* type tokens, well formed and not
TypeTokens ==
    {S("int"), S("float"), S("long"), S("bool"), S("word(5)"), S("string(10)"),
     S("string(007)"), S("weird"), S(""), S("in"), S("integer"), S("Int"),
     S("word"), S("word()"), S("word(1"), S("word(x)"), S("Word(1)"),
     S("aword(1)b"), S("string(2)s"), S("xstring(3)"), S("int:junk"),
     S("word(18446744073709551616)")}

TypeTexts ==
    {h \o S(" X:") \o t \o S("\n") : h \in {S("read"), S("loopline o"), S("loop 3 read")},
                                      t \in TypeTokens}

\* loops: the separators around the count and what follows it
LoopSeps == {S(""), S(" "), S("  "), S("\n"), S(" \n")}
LoopCounts == {S(""), S("T"), S("3")}
LoopBodies ==
    {S(""), S("read N:int\n"), S("read W:word(5) x:float\nwrite Hello\n"),
     S("write Hello\n"), S("write a\nb\n\nread N:int\n"),
     S("loop"), S("x"), S("loopline o x:int\n")}

LoopTexts ==
    {h \o s1 \o c \o s2 \o b :
        h \in {S("loop"), S("loopline")}, s1 \in LoopSeps, c \in LoopCounts,
        s2 \in LoopSeps, b \in LoopBodies}

\* text blocks: words, spaces and newlines after write, OUTPUT or STATEMENT
BlockHeads == {S("write "), S("OUTPUT "), S("STATEMENT\n"), S("STATEMENT skipped words\n")}
BlockPieces == {S("a"), S(" "), S("\n")}
BlockEnds == {S(""), S("\n"), S("\n\nread N:int\n")}

BlockTexts ==
    {h \o Cat(ps) \o e :
        h \in BlockHeads, ps \in SeqsUpTo(BlockPieces, MaxPieces), e \in BlockEnds}

\* well-formed text blocks: lines of words separated by single spaces
BlockLines == {<<S("a")>>, <<S("a"), S("read")>>, <<S("read"), S("bc"), S("a")>>}
BlockBodies == UNION {[1..k -> BlockLines] : k \in 1..MaxLines}
LineHeads == {S("write "), S("OUTPUT "), S("STATEMENT\n")}
LineEnds == {S(""), S("\n\nread N:int\n")}

\* the lines joined by sep, the words of a line by single spaces
BlockBodyText(body, sep) == join([i \in DOMAIN body |-> join(body[i], S(" "))], sep)

BlockLineText(h, body, e) == h \o BlockBodyText(body, S("\n")) \o e

BlockLineTexts ==
    {BlockLineText(h, body, e) : h \in LineHeads, body \in BlockBodies, e \in LineEnds}

\* INPUT comments
InputLines ==
    {S("N: the number of rows\n"), S("not a comment\n"), S(" M: shifted\n"),
     S("W:\n"), S("\n")}

InputTexts ==
    {h \o Cat(ls) \o e :
        h \in {S("INPUT\n"), S("INPUT skipped\n"), S("INPUT")},
        ls \in SeqsUpTo(InputLines, MaxLines),
        e \in {S(""), S("\nread N:int\n")}}

\* INPUT blocks of lines without stray spaces: the line and the comment
\* that it declares, if any
InputLineDescs ==
    {[text |-> S("N: the number of rows"),
      comment |-> Some(InputCommentNew(S("N"), S("the number of rows")))],
     [text |-> S("W:"), comment |-> Some(InputCommentNew(S("W"), S("")))],
     [text |-> S("not a comment"), comment |-> None],
     [text |-> S("see N: below"), comment |-> None]}

\* what follows the block: the end of the text, or a blank line and a command
InputEnds ==
    {[text |-> S(""), commands |-> <<>>],
     [text |-> S("\nread N:int\n"), commands |-> <<Read(<<VarNew(S("N"), "Int")>>)>>],
     [text |-> S("\nwrite N: late\n\n"), commands |-> <<Write(S("N: late"))>>]}

RECURSIVE CommentsOf(_)
CommentsOf(ls) == IF ls = <<>> THEN <<>> ELSE ls[1].comment \o CommentsOf(Tail(ls))

InputCommentCases ==
    {[text |-> h \o Cat([i \in DOMAIN ls |-> ls[i].text \o NL]) \o e.text,
      input_comments |-> CommentsOf(ls),
      commands |-> e.commands] :
        h \in {S("INPUT\n"), S("INPUT skipped N: words\n")},
        ls \in SeqsUpTo(InputLineDescs, MaxLines),
        e \in InputEnds}

Inputs ==
    FreeTexts \cup ExampleTexts \cup VarLineTexts \cup TypeTexts
        \cup LoopTexts \cup BlockTexts \cup BlockLineTexts \cup InputTexts
        \cup {c.text : c \in InputCommentCases}

\* the language configurations (external input of the transformation)
\* parse_generator_stub's token stream of a text
TokensOf(t) == split(replace(replace(t, S("\n"), S(" \n ")), S("\n  \n"), S("\n \n")), SP)

\* parse_variable on every token of the inputs that parse_variable_list
\* hands to it
VariableTokens == {tok \in UNION {Range(TokensOf(t)) : t \in Inputs} : contains(tok, S(":"))}
ParsedVariable == [tok \in VariableTokens |-> parse_variable(tok)]

Languages ==
    [variable_format : VariableNameFormat,
     allow_uppercase_vars : {None, Some(TRUE), Some(FALSE)},
     keywords : {{S("n"), S("N"), S("ok"), S("num_rows")}}]

\* ------------------------------------------------------------------------
\* The parser as a state machine (src/stub/parser.rs)
\* ------------------------------------------------------------------------

VARIABLES
    text,         \* the DSL text given to parse_generator_stub
    tokens,       \* the token stream, the split of the normalized text
    pos,          \* the cursor of the stream: the index of the next token
    stub,         \* the Stub that parse builds
    pc,           \* the function whose loop or match runs next
    stack,        \* the callers of that function, outermost first
    varlist,      \* vars of parse_variable_list
    output,       \* output of parse_write, parse_text_block, read_to_end_of_line
    count,        \* count of parse_loop
    object,       \* object of parse_loopline
    comments,     \* comments of parse_input_comment
    variable,     \* variable of parse_input_comment
    err,          \* Some(panic) once the process has panicked
    transformed,  \* Some(the last variable transformed for rendering)
    casing,       \* the identifier transformation under way, Idle in a parser run
    rendering     \* the Renderer::render call under way, Idle in a parser run

vars ==
    <<text, tokens, pos, stub, pc, stack, varlist, output, count, object,
      comments, variable, err, transformed, casing, rendering>>

locals == <<varlist, output, count, object, comments, variable>>

\* self.stream.next() is Some(token)
HasNext == pos <= Len(tokens)
token == tokens[pos]

\* self.stream.next() is Some(tok)
NextIs(tok) == HasNext /\ token = tok

\* no identifier transformation, no rendering, is under way
Idle == [pc |-> "idle"]

Keywords ==
    {S("read"), S("write"), S("loop"), S("loopline"),
     S("OUTPUT"), S("INPUT"), S("STATEMENT")}

Init ==
    /\ text \in Inputs
    /\ tokens = <<>>
    /\ pos = 1
    /\ stub = StubNew
    /\ pc = "start"
    /\ stack = <<>>
    /\ varlist = <<>>
    /\ output = <<>>
    /\ count = <<>>
    /\ object = <<>>
    /\ comments = <<>>
    /\ variable = <<>>
    /\ err = None
    /\ transformed = None
    /\ casing = Idle
    /\ rendering = Idle

\* the tokenizer, and the call of Parser::new(stream).parse()
parse_generator_stub ==
    /\ pc = "start"
    /\ LET generator ==
               replace(replace(text, S("\n"), S(" \n ")), S("\n  \n"), S("\n \n"))
       IN  tokens' = split(generator, SP)
    /\ pos' = 1
    /\ stub' = StubNew
    /\ pc' = "parse"
    /\ stack' = <<>>
    /\ UNCHANGED <<text, locals, err, transformed, casing, rendering>>

\* a panic!: the process stops, no Stub is returned
Panics(msg, arg) ==
    /\ pc' = "panic"
    /\ err' = Some(Panic(msg, arg))
    /\ UNCHANGED <<text, tokens, stub, stack, locals, transformed, casing, rendering>>

\* the Cmd that parse pushes when a sub-parser called through callers
\* returns cmd: parse_loop wraps the Cmd of parse_read_or_write
Wrapped(cmd, callers) ==
    IF \E i \in DOMAIN callers : callers[i] = "parse_loop"
    THEN Loop(count, cmd)
    ELSE cmd

\* stub.commands.push(cmd), back in the loop of parse
PushCommand(cmd) ==
    /\ stub' = [stub EXCEPT !.commands = Append(@, Wrapped(cmd, stack))]
    /\ pc' = "parse"
    /\ stack' = <<>>

\* ---- Parser::parse ----

\* "read" => stub.commands.push(self.parse_read())
parse_read ==
    /\ pc = "parse" /\ NextIs(S("read"))
    /\ pos' = pos + 1
    /\ pc' = "parse_variable_list"
    /\ stack' = <<"parse", "parse_read">>
    /\ varlist' = <<>>
    /\ UNCHANGED <<text, tokens, stub, output, count, object, comments, variable,
                   err, transformed, casing, rendering>>

\* "write" => stub.commands.push(self.parse_write())
parse_write_arm ==
    /\ pc = "parse" /\ NextIs(S("write"))
    /\ pos' = pos + 1
    /\ pc' = "parse_write"
    /\ stack' = <<"parse">>
    /\ output' = <<>>
    /\ UNCHANGED <<text, tokens, stub, varlist, count, object, comments, variable,
                   err, transformed, casing, rendering>>

\* "loop" => stub.commands.push(self.parse_loop())
parse_loop_arm ==
    /\ pc = "parse" /\ NextIs(S("loop"))
    /\ pos' = pos + 1
    /\ pc' = "parse_loop"
    /\ stack' = <<"parse">>
    /\ UNCHANGED <<text, tokens, stub, locals, err, transformed, casing, rendering>>

\* "loopline" => stub.commands.push(self.parse_loopline())
parse_loopline_arm ==
    /\ pc = "parse" /\ NextIs(S("loopline"))
    /\ pos' = pos + 1
    /\ pc' = "parse_loopline"
    /\ stack' = <<"parse">>
    /\ UNCHANGED <<text, tokens, stub, locals, err, transformed, casing, rendering>>

\* "OUTPUT" => stub.output_comment = self.parse_output_comment()
parse_output_comment ==
    /\ pc = "parse" /\ NextIs(S("OUTPUT"))
    /\ pos' = pos + 1
    /\ pc' = "parse_text_block"
    /\ stack' = <<"parse", "parse_output_comment">>
    /\ output' = <<>>
    /\ UNCHANGED <<text, tokens, stub, varlist, count, object, comments, variable,
                   err, transformed, casing, rendering>>

\* "INPUT" => stub.input_comments.append(&mut self.parse_input_comment()):
\* parse_input_comment starts with skip_to_next_line
parse_input_comment_arm ==
    /\ pc = "parse" /\ NextIs(S("INPUT"))
    /\ pos' = pos + 1
    /\ pc' = "skip_to_next_line"
    /\ stack' = <<"parse", "parse_input_comment">>
    /\ UNCHANGED <<text, tokens, stub, locals, err, transformed, casing, rendering>>

\* "STATEMENT" => stub.statement = self.parse_statement():
\* parse_statement starts with skip_to_next_line
parse_statement ==
    /\ pc = "parse" /\ NextIs(S("STATEMENT"))
    /\ pos' = pos + 1
    /\ pc' = "skip_to_next_line"
    /\ stack' = <<"parse", "parse_statement">>
    /\ UNCHANGED <<text, tokens, stub, locals, err, transformed, casing, rendering>>

\* "\n" | "" => continue
parse_continue ==
    /\ pc = "parse" /\ HasNext /\ token \in {S("\n"), S("")}
    /\ pos' = pos + 1
    /\ UNCHANGED <<text, tokens, stub, pc, stack, locals, err, transformed, casing, rendering>>

\* parse_thing with the unknown token skipped
parse_thing_Skips ==
    /\ pc = "parse" /\ HasNext /\ token \notin Keywords \cup {S("\n"), S("")}
    /\ pos' = pos + 1
    /\ UNCHANGED <<text, tokens, stub, pc, stack, locals, err, transformed, casing, rendering>>

\* thing => panic!("Error parsing stub generator: {}", thing)
parse_thing ==
    /\ pc = "parse" /\ HasNext /\ token \notin Keywords \cup {S("\n"), S("")}
    /\ pos' = pos + 1
    /\ Panics("Error parsing stub generator: {}", token)

\* the stream is exhausted: parse returns the stub
parse_return ==
    /\ pc = "parse" /\ ~HasNext
    /\ pc' = "done"
    /\ UNCHANGED <<text, tokens, pos, stub, stack, locals, err, transformed, casing, rendering>>

\* ---- Parser::parse_variable_list, called by parse_read and parse_loopline ----

\* parse_variable_list returns vars to parse_read or to parse_loopline,
\* whose Cmd goes back to parse
ReturnVars ==
    LET caller == stack[Len(stack)]
        cmd == IF caller = "parse_loopline"
               THEN LoopLine(object, varlist)
               ELSE Read(varlist)
    IN  PushCommand(cmd)

\* PushVar with the variable put in front
PushVar_Front(vs, var) == <<var>> \o vs

\* vars.push(var)
PushVar(vs, var) == Append(vs, var)

\* one iteration of the loop of parse_variable_list
parse_variable_list ==
    /\ pc = "parse_variable_list"
    /\ IF ~HasNext
       THEN /\ ReturnVars
            /\ UNCHANGED <<text, tokens, pos, locals, err, transformed, casing, rendering>>
       ELSE /\ pos' = pos + 1
            /\ IF contains(token, S(":"))
               THEN LET r == ParsedVariable[token]
                    IN  IF r.ok
                        THEN /\ varlist' = PushVar(varlist, r.val)
                             /\ UNCHANGED <<text, tokens, stub, pc, stack, output,
                                            count, object, comments, variable,
                                            err, transformed, casing, rendering>>
                        ELSE Panics(r.err.msg, r.err.arg)
               ELSE IF token = S("")
               THEN UNCHANGED <<text, tokens, stub, pc, stack, locals, err, transformed, casing, rendering>>
               ELSE IF token = S("\n")
               THEN /\ ReturnVars
                    /\ UNCHANGED <<text, tokens, locals, err, transformed, casing, rendering>>
               ELSE Panics("Error in stub generator (parse_variable_list), found {unexp}",
                           token)

\* ---- Parser::parse_write ----

\* one iteration of the loop of parse_write; a "\n" token takes the token
\* after it as well
parse_write ==
    /\ pc = "parse_write"
    /\ IF ~HasNext
       THEN /\ PushCommand(Write(join(output, S(" "))))
            /\ UNCHANGED <<text, tokens, pos, locals, err, transformed, casing, rendering>>
       ELSE IF token = S("\n")
       THEN IF pos + 1 > Len(tokens) \/ tokens[pos + 1] = S("\n")
            THEN /\ pos' = IF pos + 1 > Len(tokens) THEN pos + 1 ELSE pos + 2
                 /\ PushCommand(Write(join(output, S(" "))))
                 /\ UNCHANGED <<text, tokens, locals, err, transformed, casing, rendering>>
            ELSE /\ pos' = pos + 2
                 /\ output' = Append(output, S("\n") \o tokens[pos + 1])
                 /\ UNCHANGED <<text, tokens, stub, pc, stack, varlist, count, object,
                                comments, variable, err, transformed, casing, rendering>>
       ELSE /\ pos' = pos + 1
            /\ output' = Append(output, token)
            /\ UNCHANGED <<text, tokens, stub, pc, stack, varlist, count, object,
                           comments, variable, err, transformed, casing, rendering>>

\* ---- Parser::parse_loop ----

\* parse_loop with a newline taken as the count
parse_loop_AcceptsNewline ==
    /\ pc = "parse_loop"
    /\ IF ~HasNext
       THEN /\ Panics("Loop stub not provided with loop count", <<>>)
            /\ UNCHANGED pos
       ELSE /\ pos' = pos + 1
            /\ count' = token
            /\ pc' = "parse_read_or_write"
            /\ stack' = Append(stack, "parse_loop")
            /\ UNCHANGED <<text, tokens, stub, varlist, output, object,
                           comments, variable, err, transformed, casing, rendering>>

parse_loop ==
    /\ pc = "parse_loop"
    /\ IF ~HasNext
       THEN /\ Panics("Loop stub not provided with loop count", <<>>)
            /\ UNCHANGED pos
       ELSE /\ pos' = pos + 1
            /\ IF token = S("\n")
               THEN Panics("Loop stub not provided with loop count", <<>>)
               ELSE /\ count' = token
                    /\ pc' = "parse_read_or_write"
                    /\ stack' = Append(stack, "parse_loop")
                    /\ UNCHANGED <<text, tokens, stub, varlist, output, object,
                                   comments, variable, err, transformed, casing, rendering>>

\* ---- Parser::parse_loopline ----

parse_loopline ==
    /\ pc = "parse_loopline"
    /\ IF ~HasNext
       THEN /\ Panics("Loopline stub not provided with identifier to loop through", <<>>)
            /\ UNCHANGED pos
       ELSE /\ pos' = pos + 1
            /\ IF token = S("\n")
               THEN Panics("Loopline stub not provided with identifier to loop through",
                           <<>>)
               ELSE /\ object' = token
                    /\ pc' = "parse_variable_list"
                    /\ stack' = Append(stack, "parse_loopline")
                    /\ varlist' = <<>>
                    /\ UNCHANGED <<text, tokens, stub, output, count, comments,
                                   variable, err, transformed, casing, rendering>>

\* ---- Parser::parse_read_or_write ----

parse_read_or_write ==
    /\ pc = "parse_read_or_write"
    /\ IF ~HasNext
       THEN /\ Panics("Loop with no arguments in stub generator", <<>>)
            /\ UNCHANGED pos
       ELSE /\ pos' = pos + 1
            /\ IF token = S("read")
               THEN /\ pc' = "parse_variable_list"
                    /\ stack' = stack \o <<"parse_read_or_write", "parse_read">>
                    /\ varlist' = <<>>
                    /\ UNCHANGED <<text, tokens, stub, output, count, object,
                                   comments, variable, err, transformed, casing, rendering>>
               ELSE IF token = S("write")
               THEN /\ pc' = "parse_write"
                    /\ stack' = Append(stack, "parse_read_or_write")
                    /\ output' = <<>>
                    /\ UNCHANGED <<text, tokens, stub, varlist, count, object,
                                   comments, variable, err, transformed, casing, rendering>>
               ELSE Panics("Error parsing loop command in stub generator, got: {}",
                           token)

\* ---- Parser::skip_to_next_line ----

skip_to_next_line_KeepsNewline ==
    /\ pc = "skip_to_next_line"
    /\ pos' = IF HasNext /\ token /= S("\n") THEN pos + 1 ELSE pos
    /\ IF HasNext /\ token /= S("\n")
       THEN UNCHANGED <<text, tokens, stub, pc, stack, locals, err, transformed, casing, rendering>>
       ELSE LET caller == stack[Len(stack)]
            IN  /\ CASE caller = "parse_input_comment" ->
                          /\ pc' = "parse_input_comment"
                          /\ stack' = <<"parse">>
                          /\ comments' = <<>>
                          /\ output' = output
                     [] caller = "parse_input_comment_loop" ->
                          /\ pc' = "parse_input_comment"
                          /\ stack' = <<"parse">>
                          /\ comments' = comments
                          /\ output' = output
                     [] caller = "parse_statement" ->
                          /\ pc' = "parse_text_block"
                          /\ stack' = stack
                          /\ comments' = comments
                          /\ output' = <<>>
                /\ UNCHANGED <<text, tokens, stub, varlist, count, object, variable,
                               err, transformed, casing, rendering>>

\* one iteration of the loop of skip_to_next_line; it returns into
\* parse_input_comment (before its loop, or inside it) or into parse_statement
skip_to_next_line ==
    /\ pc = "skip_to_next_line"
    /\ pos' = IF HasNext THEN pos + 1 ELSE pos
    /\ IF HasNext /\ token /= S("\n")
       THEN UNCHANGED <<text, tokens, stub, pc, stack, locals, err, transformed, casing, rendering>>
       ELSE LET caller == stack[Len(stack)]
            IN  /\ CASE caller = "parse_input_comment" ->
                          /\ pc' = "parse_input_comment"
                          /\ stack' = <<"parse">>
                          /\ comments' = <<>>
                          /\ output' = output
                     [] caller = "parse_input_comment_loop" ->
                          /\ pc' = "parse_input_comment"
                          /\ stack' = <<"parse">>
                          /\ comments' = comments
                          /\ output' = output
                     [] caller = "parse_statement" ->
                          /\ pc' = "parse_text_block"
                          /\ stack' = stack
                          /\ comments' = comments
                          /\ output' = <<>>
                /\ UNCHANGED <<text, tokens, stub, varlist, count, object, variable,
                               err, transformed, casing, rendering>>

\* ---- Parser::parse_input_comment ----

\* one iteration of the loop of parse_input_comment
parse_input_comment ==
    /\ pc = "parse_input_comment"
    /\ IF ~HasNext \/ token = S("\n")
       THEN /\ pos' = IF HasNext THEN pos + 1 ELSE pos
            /\ stub' = [stub EXCEPT !.input_comments = @ \o comments]
            /\ pc' = "parse"
            /\ stack' = <<>>
            /\ UNCHANGED <<text, tokens, locals, err, transformed, casing, rendering>>
       ELSE /\ pos' = pos + 1
            /\ stack' = <<"parse", "parse_input_comment_loop">>
            /\ LET stripped == strip_suffix(token, S(":"))
               IN  IF stripped /= None
                   THEN /\ variable' = stripped[1]
                        /\ output' = <<>>
                        /\ pc' = "read_to_end_of_line"
                   ELSE /\ pc' = "skip_to_next_line"
                        /\ UNCHANGED <<variable, output>>
            /\ UNCHANGED <<text, tokens, stub, varlist, count, object, comments,
                           err, transformed, casing, rendering>>

\* ---- Parser::read_to_end_of_line ----

PushComment_Front(cs, comment) == <<comment>> \o cs

\* comments.push(comment)
PushComment(cs, comment) == Append(cs, comment)

\* one iteration of the loop of read_to_end_of_line; it returns into the
\* loop of parse_input_comment, which pushes the comment
read_to_end_of_line ==
    /\ pc = "read_to_end_of_line"
    /\ pos' = IF HasNext THEN pos + 1 ELSE pos
    /\ IF HasNext /\ token /= S("\n")
       THEN /\ output' = Append(output, token)
            /\ UNCHANGED <<text, tokens, stub, pc, stack, varlist, count, object,
                           comments, variable, err, transformed, casing, rendering>>
       ELSE /\ comments' = PushComment(comments, InputCommentNew(variable, join(output, S(" "))))
            /\ pc' = "parse_input_comment"
            /\ stack' = <<"parse">>
            /\ UNCHANGED <<text, tokens, stub, varlist, output, count, object,
                           variable, err, transformed, casing, rendering>>

\* ---- Parser::parse_text_block, called by parse_output_comment and parse_statement ----

\* ReturnText with the text pushed as a Write command as well
ReturnText_PushesWrite(block) ==
    LET caller == stack[Len(stack)]
    IN  /\ stub' = IF caller = "parse_statement"
                   THEN [stub EXCEPT !.statement = block,
                                     !.commands = Append(@, Write(block))]
                   ELSE [stub EXCEPT !.output_comment = block,
                                     !.commands = Append(@, Write(block))]
        /\ pc' = "parse"
        /\ stack' = <<>>

\* parse_text_block returns the text to parse_output_comment or to
\* parse_statement, and parse stores it in the stub
ReturnText(block) ==
    LET caller == stack[Len(stack)]
    IN  /\ stub' = IF caller = "parse_statement"
                   THEN [stub EXCEPT !.statement = block]
                   ELSE [stub EXCEPT !.output_comment = block]
        /\ pc' = "parse"
        /\ stack' = <<>>

\* one iteration of the loop of parse_text_block; a "\n" token takes the
\* token after it as well
parse_text_block ==
    /\ pc = "parse_text_block"
    /\ IF ~HasNext
       THEN /\ ReturnText(join(output, S(" ")))
            /\ UNCHANGED <<text, tokens, pos, locals, err, transformed, casing, rendering>>
       ELSE IF token = S("\n")
       THEN IF pos + 1 > Len(tokens) \/ tokens[pos + 1] = S("\n")
            THEN /\ pos' = IF pos + 1 > Len(tokens) THEN pos + 1 ELSE pos + 2
                 /\ ReturnText(join(output, S(" ")))
                 /\ UNCHANGED <<text, tokens, locals, err, transformed, casing, rendering>>
            ELSE /\ pos' = pos + 2
                 /\ output' = Append(output, S("\n") \o tokens[pos + 1])
                 /\ UNCHANGED <<text, tokens, stub, pc, stack, varlist, count, object,
                                comments, variable, err, transformed, casing, rendering>>
       ELSE /\ pos' = pos + 1
            /\ output' = Append(output, token)
            /\ UNCHANGED <<text, tokens, stub, pc, stack, varlist, count, object,
                           comments, variable, err, transformed, casing, rendering>>

\* ---- the renderer's use of a parsed variable ----

\* the variables of a command, those of the body of a Loop included
RECURSIVE CmdVars(_)
CmdVars(cmd) ==
    CASE cmd.cmd = "Read" -> Range(cmd.variables)
      [] cmd.cmd = "LoopLine" -> Range(cmd.variables)
      [] cmd.cmd = "Loop" -> CmdVars(cmd.command)
      [] OTHER -> {}

StubVars(st) == UNION {CmdVars(st.commands[i]) : i \in DOMAIN st.commands}

\* a variable of the returned Stub goes through the identifier
\* transformation of the target language
transform_variable ==
    /\ pc = "done"
    /\ transformed = None
    /\ \E lang \in Languages, var \in StubVars(stub) :
          transformed' = Some([lang |-> lang,
                               var |-> VariableCommandOf(var),
                               out |-> transform_variable_command(lang, VariableCommandOf(var))])
    /\ UNCHANGED <<text, tokens, pos, stub, pc, stack, locals, err, casing, rendering>>

Next ==
    \/ parse_generator_stub
    \/ parse_read
    \/ parse_write_arm
    \/ parse_loop_arm
    \/ parse_loopline_arm
    \/ parse_output_comment
    \/ parse_input_comment_arm
    \/ parse_statement
    \/ parse_continue
    \/ parse_thing
    \/ parse_return
    \/ parse_variable_list
    \/ parse_write
    \/ parse_loop
    \/ parse_loopline
    \/ parse_read_or_write
    \/ skip_to_next_line
    \/ parse_input_comment
    \/ read_to_end_of_line
    \/ parse_text_block
    \/ transform_variable

Spec == Init /\ [][Next]_vars

\* a step of parse or of one of its sub-parsers follows
Parsing == pc \notin {"start", "done", "panic", "idle"}

\* Parser::parse, once called, runs until it returns or panics: nothing
\* suspends it
FairSpec == Spec /\ WF_vars(Parsing /\ Next)

TypeOK ==
    /\ pc \in {"start", "parse", "parse_variable_list", "parse_write", "parse_loop",
               "parse_loopline", "parse_read_or_write", "skip_to_next_line",
               "parse_input_comment", "read_to_end_of_line", "parse_text_block",
               "done", "panic"}
    /\ pos \in 1..(Len(tokens) + 1)
    /\ (pc = "panic") = (err /= None)

\* ------------------------------------------------------------------------
\* The identifier transformation as a state machine (src/stub/language.rs)
\* ------------------------------------------------------------------------

MaxIdLen == 4

IdChars == {"a", "A", "B", "1", "_"}

\* the identifiers handed to the transformation, the empty one included
Identifiers == SeqsUpTo(IdChars, MaxIdLen)

CasingKeywords == {S("a"), S("A"), S("aB"), S("a_b")}

CasingLanguages ==
    [variable_format : VariableNameFormat,
     allow_uppercase_vars : {None, Some(TRUE), Some(FALSE)},
     keywords : {CasingKeywords}]

\* no parser runs
ParserIdle ==
    /\ text = <<>>
    /\ tokens = <<>>
    /\ pos = 1
    /\ pc = "idle"
    /\ stack = <<>>
    /\ varlist = <<>>
    /\ output = <<>>
    /\ count = <<>>
    /\ object = <<>>
    /\ comments = <<>>
    /\ variable = <<>>
    /\ err = None
    /\ transformed = None

parser == <<text, tokens, pos, stub, pc, stack, locals, err, transformed>>

\* a Language and an identifier; casing.first and casing.first_converted are
\* the result and the converted_variable_name of the first call once its
\* output is handed to the second call
InitCasing ==
    /\ ParserIdle
    /\ stub = StubNew
    /\ rendering = Idle
    /\ \E lang \in CasingLanguages, variable_name \in Identifiers :
          casing = [pc |-> "start",
                    lang |-> lang,
                    original |-> variable_name,
                    variable_name |-> variable_name,
                    converted |-> None,
                    result |-> None,
                    first |-> None,
                    first_converted |-> None]

\* transform_variable_name, up to the call of escape_keywords
transform_match ==
    /\ casing.pc = "start"
    /\ casing' = [casing EXCEPT
                    !.pc = "escape_keywords",
                    !.converted = Some(converted_variable_name(casing.lang,
                                                               casing.variable_name))]
    /\ UNCHANGED <<parser, rendering>>

transform_escape_Raw ==
    /\ casing.pc = "escape_keywords"
    /\ casing' = [casing EXCEPT
                    !.pc = "returned",
                    !.result = Some(IF casing.variable_name \in casing.lang.keywords
                                    THEN <<"_">> \o casing.converted[1]
                                    ELSE casing.converted[1])]
    /\ UNCHANGED <<parser, rendering>>

\* self.escape_keywords(converted_variable_name), the value returned
transform_escape ==
    /\ casing.pc = "escape_keywords"
    /\ casing' = [casing EXCEPT
                    !.pc = "returned",
                    !.result = Some(escape_keywords(casing.lang, casing.converted[1]))]
    /\ UNCHANGED <<parser, rendering>>

\* the identifier returned is transformed again
transform_again ==
    /\ casing.pc = "returned"
    /\ casing.first = None
    /\ casing' = [casing EXCEPT
                    !.pc = "start",
                    !.variable_name = casing.result[1],
                    !.first = casing.result,
                    !.first_converted = casing.converted,
                    !.converted = None,
                    !.result = None]
    /\ UNCHANGED <<parser, rendering>>

\* VariableNameFormat::convert called on the identifier
convert_once ==
    /\ casing.pc = "start"
    /\ casing.first = None
    /\ LET out == convert(casing.lang.variable_format, casing.variable_name)
       IN  casing' = IF out = PANIC
                     THEN [casing EXCEPT !.pc = "panic"]
                     ELSE [casing EXCEPT !.pc = "converted", !.converted = Some(out)]
    /\ UNCHANGED <<parser, rendering>>

\* VariableNameFormat::convert called on its own output
convert_twice ==
    /\ casing.pc = "converted"
    /\ casing' = [casing EXCEPT
                    !.pc = "converted_twice",
                    !.variable_name = casing.converted[1],
                    !.first = casing.converted,
                    !.converted = Some(convert(casing.lang.variable_format,
                                               casing.converted[1]))]
    /\ UNCHANGED <<parser, rendering>>

NextCasing ==
    \/ transform_match
    \/ transform_escape
    \/ transform_again
    \/ convert_once
    \/ convert_twice

SpecCasing == InitCasing /\ [][NextCasing]_vars

TypeOKCasing ==
    /\ casing.pc \in {"start", "escape_keywords", "returned", "converted",
                      "converted_twice", "panic"}
    /\ casing.converted /= None => casing.converted[1] /= PANIC

\* ------------------------------------------------------------------------
\* The renderer as a state machine (src/stub/renderer.rs)
\* ------------------------------------------------------------------------

MaxCommands == 2

\* str::lines: the pieces between newlines, without a final empty piece
lines(s) ==
    LET parts == split(s, NL)
    IN  IF parts[Len(parts)] = <<>> THEN SubSeq(parts, 1, Len(parts) - 1) ELSE parts

\* str::trim_end
RECURSIVE trim_end(_)
trim_end(s) ==
    IF s /= <<>> /\ s[Len(s)] \in {SP, NL}
    THEN trim_end(SubSeq(s, 1, Len(s) - 1))
    ELSE s

\* the language of the Renderer: the fields that render reads
RenderLanguage ==
    [source_file_ext |-> S("rb"),
     type_tokens |-> [Int |-> Some(S("int")), Float |-> Some(S("float")),
                      Long |-> Some(S("long")), Bool |-> Some(S("bool")),
                      Word |-> None, String |-> None]]

template_path(template_name) ==
    S(template_name) \o S(".") \o RenderLanguage.source_file_ext \o S(".jinja")

\* ReadData::from(var_cmd), the record that the templates read
ReadDataFrom(var_cmd) == [read_data |-> var_cmd]

ReadDataOf(vs) == [k \in DOMAIN vs |-> ReadDataFrom(vs[k])]

\* what self.tera.render returns: the text of the template, or an error
TemplateOutputs ==
    {S("a\nb"), S("a\n\nb"), S("a\n\n\nb \n"), S("a\n\n\n\n\nb")}

TeraResults == {Some(t) : t \in TemplateOutputs} \cup {None}

\* the commands of the stubs handed to render; the body of a Loop is a
\* Read or a Write, as parse_read_or_write returns it
RenderCommands ==
    {Read(<<VarNew(S("N"), "Int")>>),
     Write(S("x\ny")),
     LoopLine(S("arr"), <<VarNew(S("x"), "Int")>>),
     Loop(S("N"), Read(<<VarNew(S("x"), "Int")>>)),
     Loop(S("3"), Write(S("x")))}

RenderStubs ==
    {[StubNew EXCEPT !.commands = cs] : cs \in SeqsUpTo(RenderCommands, MaxCommands)}

InitRender ==
    /\ ParserIdle
    /\ stub \in RenderStubs
    /\ casing = Idle
    /\ rendering = [pc |-> "render_command",   \* the next step of render
                    i |-> 1,                   \* the position of the iterator
                    strs |-> <<>>,             \* every cmd_str so far
                    commands |-> <<>>,         \* the Vec<String> collected
                    calls |-> <<>>,            \* the calls of self.tera.render
                    inner |-> None,            \* the rendered body of a Loop
                    result |-> None]           \* the text that render returns

\* the command that render_command is called on
Current ==
    IF rendering.pc = "render_inner"
    THEN stub.commands[rendering.i].command
    ELSE stub.commands[rendering.i]

Rendering(kind) ==
    /\ rendering.pc \in {"render_command", "render_inner"}
    /\ rendering.i <= Len(stub.commands)
    /\ Current.cmd = kind

\* format!("{}\n", cmd_str).replace("\n\n", "\n").replace("\n\n", "\n")
format_command(cmd_str) ==
    replace(replace(cmd_str \o <<NL>>, S("\n\n"), S("\n")), S("\n\n"), S("\n"))

PushRendered_Front(r, cmd_str) ==
    [r EXCEPT !.pc = "render_command",
              !.i = @ + 1,
              !.strs = <<cmd_str>> \o @,
              !.commands = <<format_command(cmd_str)>> \o @,
              !.inner = None]

\* the closure of render has the text of its command: the next element of
\* the collected Vec
PushRendered(r, cmd_str) ==
    [r EXCEPT !.pc = "render_command",
              !.i = @ + 1,
              !.strs = Append(@, cmd_str),
              !.commands = Append(@, format_command(cmd_str)),
              !.inner = None]

\* render_command returns cmd_str, to render_loop or to the closure of render
Returns(r, cmd_str) ==
    IF r.pc = "render_inner"
    THEN [r EXCEPT !.pc = "render_loop", !.inner = Some(cmd_str)]
    ELSE PushRendered(r, cmd_str)

\* self.tera.render(template, context) gives res; expect panics on an error
TeraRender(template, context, res) ==
    [rendering EXCEPT
        !.calls = Append(@, [template |-> template, context |-> context, out |-> res]),
        !.pc = IF res = None THEN "panic" ELSE @]

render_write ==
    /\ Rendering("Write")
    /\ \E res \in TeraResults :
          LET r == TeraRender(template_path("write"),
                              [messages |-> lines(Current.message)], res)
          IN  rendering' = IF res = None THEN r ELSE Returns(r, res[1])
    /\ UNCHANGED <<parser, casing>>

render_read ==
    /\ Rendering("Read")
    /\ \E res \in TeraResults :
          LET r == TeraRender(template_path("read"),
                              [vars |-> ReadDataOf(Current.variables),
                               type_tokens |-> RenderLanguage.type_tokens], res)
          IN  rendering' = IF res = None THEN r ELSE Returns(r, trim_end(res[1]))
    /\ UNCHANGED <<parser, casing>>

render_loopline ==
    /\ Rendering("LoopLine")
    /\ \E res \in TeraResults :
          LET r == TeraRender(template_path("loopline"),
                              [object |-> Current.object,
                               vars |-> ReadDataOf(Current.variables),
                               type_tokens |-> RenderLanguage.type_tokens], res)
          IN  rendering' = IF res = None THEN r ELSE Returns(r, res[1])
    /\ UNCHANGED <<parser, casing>>

\* render_loop calls render_command on the body of the Loop
render_loop_command ==
    /\ rendering.pc = "render_command"
    /\ Rendering("Loop")
    /\ rendering' = [rendering EXCEPT !.pc = "render_inner"]
    /\ UNCHANGED <<parser, casing>>

\* render_loop, once the body is rendered
render_loop ==
    /\ rendering.pc = "render_loop"
    /\ \E res \in TeraResults :
          LET r == TeraRender(template_path("loop"),
                              [count |-> stub.commands[rendering.i].count,
                               inner |-> lines(rendering.inner[1])], res)
          IN  rendering' = IF res = None THEN r ELSE Returns(r, res[1])
    /\ UNCHANGED <<parser, casing>>

\* render, once every command is rendered: the main template
render ==
    /\ rendering.pc = "render_command"
    /\ rendering.i > Len(stub.commands)
    /\ \E res \in TeraResults :
          LET r == TeraRender(template_path("main"),
                              [commands |-> rendering.commands], res)
          IN  rendering' = IF res = None THEN r
                           ELSE [r EXCEPT !.pc = "done", !.result = res]
    /\ UNCHANGED <<parser, casing>>

NextRender ==
    \/ render_write
    \/ render_read
    \/ render_loopline
    \/ render_loop_command
    \/ render_loop
    \/ render

SpecRender == InitRender /\ [][NextRender]_vars

TypeOKRender ==
    /\ rendering.pc \in {"render_command", "render_inner", "render_loop", "done", "panic"}
    /\ rendering.i \in 1..(Len(stub.commands) + 1)
    /\ Len(rendering.commands) = rendering.i - 1
    /\ rendering.pc = "render_loop" => rendering.inner /= None

\* ------------------------------------------------------------------------
\* Properties
\* ------------------------------------------------------------------------

\* the run is over: parse has returned the Stub, or the process has panicked
Finished == pc \in {"done", "panic"}

VarN == VarNew(S("N"), "Int")

\* C1: parsing "loop T\nread N:int\n" completes without a parse error and
\* yields exactly one command, Loop{count: "T", body: Read([N: Int])}.
C1_LoopExampleParses ==
    (text = LoopExample /\ Finished)
        => /\ pc = "done"
           /\ stub.commands = <<Loop(S("T"), Read(<<VarN>>))>>

\* C2: parsing "read N:int\nwrite Hello\n" yields the commands
\* [Read([N: Int]), Write("Hello")]: the message is exactly Hello.
C2_ReadWriteExampleParses ==
    (text = ReadWriteExample /\ Finished)
        => /\ pc = "done"
           /\ stub.commands = <<Read(<<VarN>>), Write(S("Hello"))>>

\* the type of a variable token name:type: what follows the first colon
RECURSIVE AfterColon(_)
AfterColon(tok) ==
    IF Len(tok) = 0 THEN <<>>
    ELSE IF tok[1] = ":" THEN Tail(tok)
    ELSE AfterColon(Tail(tok))

\* t is exactly int, float, long or bool, or exactly word(N) or string(N)
\* with N a decimal integer
WellFormedType(t) ==
    \/ t \in {S("int"), S("float"), S("long"), S("bool")}
    \/ \E kw \in {S("word"), S("string")} :
          /\ Len(t) >= Len(kw) + 3
          /\ SubSeq(t, 1, Len(kw) + 1) = kw \o S("(")
          /\ t[Len(t)] = ")"
          /\ \A i \in (Len(kw) + 2)..(Len(t) - 1) : IsDigit(t[i])

\* C3: in a variable list, a token name:type whose type is not exactly one
\* of int, float, long, bool, word(N), string(N) makes the parse fail with
\* an error that echoes the whole token.
C3_OnlyWellFormedTypes ==
    [][(/\ pc = "parse_variable_list"
        /\ HasNext
        /\ contains(token, S(":"))
        /\ ~WellFormedType(AfterColon(token)))
          => (/\ pc' = "panic"
              /\ err' = Some(Panic("Failed to parse variable type for token: {}", token)))]_vars

\* the text a block of the stub holds for a text that starts with head h
BlockOf(h) ==
    IF h = S("write ")
    THEN IF Len(stub.commands) >= 1 /\ stub.commands[1].cmd = "Write"
         THEN Some(stub.commands[1].message)
         ELSE None
    ELSE IF h = S("OUTPUT ") THEN Some(stub.output_comment)
    ELSE Some(stub.statement)

\* the Read that follows the blank line which ends a block
AfterBlock(h, e) ==
    LET before == IF h = S("write ") THEN 1 ELSE 0
    IN  IF e = S("")
        THEN Len(stub.commands) = before
        ELSE /\ Len(stub.commands) = before + 1
             /\ stub.commands[before + 1] = Read(<<VarN>>)

\* the generated blocks: the text, its head, its end and the block expected
BlockCases ==
    {[text |-> BlockLineText(h, body, e), head |-> h, end |-> e,
      block |-> BlockBodyText(body, S("\n"))] :
        h \in LineHeads, body \in BlockBodies, e \in LineEnds}

\* C4: the text of a block has one space between the tokens of a line and
\* a newline character, in place of the space, between the last token of a
\* line and the first token of the next; a single newline does not end the
\* block, a blank line or the end of the stream does.
C4_BlockTextSeparators ==
    Finished =>
        \A c \in BlockCases :
            c.text = text
                => /\ pc = "done"
                   /\ BlockOf(c.head) = Some(c.block)
                   /\ AfterBlock(c.head, c.end)

\* the positions of the newline characters of s, and of the
\* newline-sentinel tokens of toks
NewlineChars(s) == {i \in DOMAIN s : s[i] = NL}
NewlineTokens(toks) == {i \in DOMAIN toks : toks[i] = S("\n")}

\* the k-th smallest element of a set of numbers
Kth(X, k) == CHOOSE x \in X : Cardinality({y \in X : y < x}) = k - 1

\* C5: every blank line of the text (two newlines with nothing or only
\* spaces between them) is two consecutive newline-sentinel tokens of the
\* stream, with no token between them.
C5_BlankLineIsTwoSentinels ==
    pc /= "start" =>
        /\ Cardinality(NewlineTokens(tokens)) = Cardinality(NewlineChars(text))
        /\ \A k \in 1..(Cardinality(NewlineChars(text)) - 1) :
              LET a == Kth(NewlineChars(text), k)
                  b == Kth(NewlineChars(text), k + 1)
              IN  (\A i \in (a + 1)..(b - 1) : text[i] = SP)
                      => Kth(NewlineTokens(tokens), k + 1) = Kth(NewlineTokens(tokens), k) + 1

\* C6: in every Stub that parse returns, a variable of a Read or of a
\* LoopLine, the Read of a Loop body included, has a max_length exactly when
\* its type is Word or String; the identifier transformation of a variable
\* keeps its type and its max_length.
C6_MaxLengthIffWordOrString ==
    /\ pc = "done" =>
          \A v \in StubVars(stub) :
              (v.max_length /= None) <=> (v.type \in {"Word", "String"})
    /\ transformed /= None =>
          /\ transformed[1].out.var_type = transformed[1].var.var_type
          /\ transformed[1].out.max_length = transformed[1].var.max_length

\* a returned Loop whose Read has a variable with a length and one without,
\* and the Word variable renamed by the transformation
C6_Witness ==
    /\ pc = "done"
    /\ \E i \in DOMAIN stub.commands :
          /\ stub.commands[i].cmd = "Loop"
          /\ stub.commands[i].command.cmd = "Read"
          /\ \E v, w \in Range(stub.commands[i].command.variables) :
                /\ v.type = "Word" /\ v.max_length = Some(5)
                /\ w.type = "Float" /\ w.max_length = None
    /\ transformed /= None
    /\ transformed[1].var.var_type = "Word"
    /\ transformed[1].out.max_length = Some(5)
    /\ transformed[1].out.ident /= transformed[1].var.ident

\* the generated read and loopline lines: the text, the command expected
\* first and the kinds of the commands that follow it
VarLineCases ==
    {[text |-> VarLineText(S("read"), ds, r.text),
      first |-> Read([i \in DOMAIN ds |-> ds[i].var]),
      kinds |-> r.kinds] : ds \in VarLists, r \in RestDescs}
    \cup
    {[text |-> VarLineText(S("loopline ") \o o, ds, r.text),
      first |-> LoopLine(o, [i \in DOMAIN ds |-> ds[i].var]),
      kinds |-> r.kinds] : o \in LoopLineObjects, ds \in VarLists, r \in RestDescs}

\* C7: a line "loopline obj v1:t1 ... vk:tk" parses to one LoopLine with
\* object obj and the variables v1..vk in order, each with its type and, for
\* word(N) and string(N), max_length N; the list ends at the first newline
\* and the tokens after it are dispatched at top level. Read gets its
\* variables by the same rule.
C7_VariableListInOrder ==
    Finished =>
        \A c \in VarLineCases :
            c.text = text
                => /\ pc = "done"
                   /\ Len(stub.commands) = 1 + Len(c.kinds)
                   /\ stub.commands[1] = c.first
                   /\ \A i \in DOMAIN c.kinds : stub.commands[1 + i].cmd = c.kinds[i]

\* the loopline example of the specification, parsed
C7_Witness ==
    /\ pc = "done"
    /\ text = LoopLineExample
    /\ stub.commands =
          <<LoopLine(S("arr"), <<VarN, VarNewLength(S("M"), "String", 10)>>)>>

\* the dispatch points of the parser: where the next token selects what is
\* parsed
DispatchPoints ==
    {"parse", "parse_variable_list", "parse_read_or_write", "parse_input_comment"}

\* the dispatch point pc accepts the token tok
Dispatches(tok) ==
    CASE pc = "parse" -> tok \in Keywords
      [] pc = "parse_variable_list" -> contains(tok, S(":")) \/ tok = S("\n")
      [] pc = "parse_read_or_write" -> tok \in {S("read"), S("write")}
      [] pc = "parse_input_comment" -> tok /= S("")
      [] OTHER -> FALSE

\* C8: an empty token right before the token a dispatch point dispatches
\* on is a no-op: it is consumed and nothing else changes, so that the
\* token after it is dispatched from the same state; it causes no parse
\* error and does not change the Stub.
C8_EmptyTokenIsNoOp ==
    [][(/\ pc \in DispatchPoints
        /\ NextIs(S(""))
        /\ pos + 1 <= Len(tokens)
        /\ Dispatches(tokens[pos + 1]))
          => (/\ pos' = pos + 1
              /\ UNCHANGED <<pc, stub, varlist, comments, err>>)]_vars

\* C9: the parse fails, and adds no command, when the token after loop or
\* after loopline is a newline-sentinel or the stream has ended, and when
\* the token after a loop count is not read or write; a failed parse
\* returns no Stub.
C9_LoopArgumentsRequired ==
    [][/\ (pc \in {"parse_loop", "parse_loopline"} /\ (~HasNext \/ token = S("\n")))
          => (pc' = "panic" /\ stub' = stub)
       /\ (pc = "parse_read_or_write" /\ ~NextIs(S("read")) /\ ~NextIs(S("write")))
          => (pc' = "panic" /\ stub' = stub)
       /\ (pc = "panic" => pc' = "panic")]_vars

\* the parse has failed on the newline that follows a loop count
C9_Witness ==
    /\ pc = "panic"
    /\ err = Some(Panic("Error parsing loop command in stub generator, got: {}", S("\n")))
    /\ count = S("T")
    /\ \A i \in DOMAIN stub.commands : stub.commands[i].cmd \notin {"Loop", "LoopLine"}

\* C10: at the top level a newline-sentinel or an empty token is skipped
\* and the Stub is unchanged; a token that is neither a keyword nor a
\* newline-sentinel nor empty makes the parse fail, and a failed parse
\* returns no Stub.
C10_TopLevelTokens ==
    [][/\ (pc = "parse" /\ HasNext /\ token \in {S("\n"), S("")})
          => (pos' = pos + 1 /\ UNCHANGED <<pc, stub, err>>)
       /\ (pc = "parse" /\ HasNext /\ token \notin Keywords \cup {S("\n"), S("")})
          => (/\ pc' = "panic"
              /\ err' = Some(Panic("Error parsing stub generator: {}", token))
              /\ stub' = stub)
       /\ (pc = "panic" => pc' = "panic")]_vars

\* the parse has failed on an unknown top-level token that came after a
\* command and a skipped newline
C10_Witness ==
    /\ pc = "panic"
    /\ err = Some(Panic("Error parsing stub generator: {}", S("T")))
    /\ Len(stub.commands) = 1
    /\ pos >= 3
    /\ tokens[pos - 2] \in {S("\n"), S("")}

\* C11: an INPUT block skips the rest of the INPUT line; each following line
\* up to the first blank line whose first token ends in ":" gives one
\* InputComment (the token without the colon, the other tokens of the line
\* joined by single spaces), every other line gives none; the comments are
\* in order of appearance and the text after the blank line is parsed at top
\* level.
C11_InputComments ==
    Finished =>
        \A c \in InputCommentCases :
            c.text = text =>
                /\ pc = "done"
                /\ stub.input_comments = c.input_comments
                /\ stub.commands = c.commands

\* two comments taken in order, before a blank line and a command
C11_Witness ==
    /\ pc = "done"
    /\ text \in {c.text : c \in InputCommentCases}
    /\ Len(stub.input_comments) = 2
    /\ stub.input_comments[1] /= stub.input_comments[2]
    /\ stub.commands /= <<>>

\* the identifier is made only of uppercase letters
OnlyUppercase(x) == x /= <<>> /\ \A i \in DOMAIN x : IsUpper(x[i])

\* transform_variable_name has returned
Returned == casing.pc = "returned"

\* the identifier that the uppercase special case gives
Passthrough ==
    IF casing.lang.allow_uppercase_vars = Some(FALSE)
    THEN to_lowercase(casing.variable_name)
    ELSE casing.variable_name

\* C12: an identifier made only of uppercase letters is returned unchanged
\* when allow_uppercase_vars is true or absent and fully lowercased, and
\* nothing else, when it is false, for every format and keyword set.
C12_UppercasePassthrough ==
    (Returned /\ OnlyUppercase(casing.variable_name)) =>
        casing.result[1] = Passthrough

\* C12, amended: an identifier made only of uppercase letters is returned
\* unchanged when allow_uppercase_vars is true or absent and fully lowercased
\* when it is false, for every format, with one underscore prepended when
\* that string is a member of the keyword set.
C12_UppercasePassthroughThenEscape ==
    (Returned /\ OnlyUppercase(casing.variable_name)) =>
        casing.result[1] = IF Passthrough \in casing.lang.keywords
                           THEN <<"_">> \o Passthrough
                           ELSE Passthrough

\* an uppercase identifier lowercased into a keyword, and escaped
C12_Witness ==
    /\ Returned
    /\ casing.variable_name = S("A")
    /\ casing.lang.allow_uppercase_vars = Some(FALSE)
    /\ casing.lang.variable_format = "PascalCase"
    /\ casing.result = Some(S("_a"))

\* C13: keyword escaping runs last, on the case-converted identifier: the
\* result is the converted identifier with exactly one underscore prepended
\* when the converted identifier is a member of the keyword set, and the
\* converted identifier otherwise, whether or not the raw identifier is a
\* keyword.
C13_KeywordEscapingLast ==
    Returned =>
        /\ casing.converted[1] \in casing.lang.keywords =>
              casing.result[1] = <<"_">> \o casing.converted[1]
        /\ casing.converted[1] \notin casing.lang.keywords =>
              casing.result[1] = casing.converted[1]

\* a raw identifier that is a keyword, converted to one that is not, and
\* returned without the underscore
C13_Witness ==
    /\ Returned
    /\ casing.variable_name = S("aB")
    /\ casing.variable_name \in casing.lang.keywords
    /\ casing.converted = Some(S("AB"))
    /\ casing.result = Some(S("AB"))

\* C14: for each format and every non-empty identifier over letters, digits
\* and the underscore, converting the converted identifier again gives the
\* converted identifier.
C14_ConvertIdempotent ==
    casing.pc = "converted_twice" => casing.converted = casing.first

\* an identifier that the conversion changes, converted twice
C14_Witness ==
    /\ casing.pc = "converted_twice"
    /\ casing.lang.variable_format = "PascalCase"
    /\ casing.original = S("aAB1")
    /\ casing.first /= Some(casing.original)
    /\ casing.converted = casing.first

\* identifiers built from words: the first word lowercase or capitalized, the
\* later words capitalized; a word may end in a digit or be an acronym
FirstWords == {S("aa"), S("Aa"), S("a1"), S("AB")}
LaterWords == {S("Aa"), S("A1"), S("AB")}

WordCases ==
    {[words |-> <<w>>, identifier |-> w] : w \in FirstWords}
        \cup {[words |-> <<w, v>>, identifier |-> w \o v] :
                 w \in FirstWords, v \in LaterWords}

LowercaseEach(ws) == [i \in DOMAIN ws |-> to_lowercase(ws[i])]

\* C15: the SnakeCase conversion of an identifier built from words, split on
\* the underscore, is the list of the words, case-insensitively.
C15_SnakeRoundTrip ==
    (casing.pc = "converted" /\ casing.lang.variable_format = "SnakeCase") =>
        \A c \in WordCases :
            c.identifier = casing.variable_name =>
                LowercaseEach(split(casing.converted[1], "_")) = LowercaseEach(c.words)

\* C16: transform_variable_name applied to its own output gives that output
\* again, for every Language configuration and identifier.
C16_TransformIdempotent ==
    (Returned /\ casing.first /= None) => casing.result = casing.first

\* the first call escaped a keyword
FirstEscaped == casing.first /= casing.first_converted

\* C16, amended: transform_variable_name applied to its own output gives
\* that output again when allow_uppercase_vars is true or absent and the
\* first application did not escape a keyword.
C16_TransformIdempotentUnescaped ==
    (/\ Returned
     /\ casing.first /= None
     /\ casing.lang.allow_uppercase_vars /= Some(FALSE)
     /\ ~FirstEscaped) =>
        casing.result = casing.first

\* a converted identifier that is all uppercase, taken unchanged by the
\* second call
C16_Witness ==
    /\ Returned
    /\ casing.original = S("aB")
    /\ casing.lang.variable_format = "PascalCase"
    /\ casing.lang.allow_uppercase_vars = Some(TRUE)
    /\ casing.first = Some(S("AB"))
    /\ ~FirstEscaped
    /\ casing.result = casing.first

\* the uppercase run of t around position i: its first and last positions
RunStart(t, i) ==
    CHOOSE b \in 1..i :
        /\ \A k \in b..i : IsUpper(t[k])
        /\ b = 1 \/ ~IsUpper(t[b - 1])

RunEnd(t, i) ==
    CHOOSE e \in i..Len(t) :
        /\ \A k \in i..e : IsUpper(t[k])
        /\ e = Len(t) \/ ~IsUpper(t[e + 1])

\* the letter at position i of t is to be lowercased: it is in a run that
\* an uppercase+lowercase pair follows (the run's last letter and the
\* lowercase letter after it are the pair), or it is in the run at the very
\* end and is not its first letter
Lowered(t, i) ==
    /\ IsUpper(t[i])
    /\ \/ /\ RunEnd(t, i) < Len(t)
          /\ IsLower(t[RunEnd(t, i) + 1])
          /\ i < RunEnd(t, i)
       \/ /\ RunEnd(t, i) = Len(t)
          /\ i > RunStart(t, i)

WordsLowered(t) == [i \in 1..Len(t) |-> IF Lowered(t, i) THEN CharToLower(t[i]) ELSE t[i]]

\* C17: the Pascal and Camel conversions of a non-empty identifier: after
\* the first character, a run of uppercase letters followed by an
\* uppercase+lowercase pair is lowercased (the pair's uppercase letter is
\* kept), the run at the very end is lowercased but for its first letter,
\* every other character is unchanged; the first character is uppercased for
\* Pascal and lowercased for Camel.
C17_PascalAndCamel ==
    (/\ casing.pc = "converted"
     /\ casing.lang.variable_format \in {"PascalCase", "CamelCase"}) =>
        LET x == casing.variable_name
            first == IF casing.lang.variable_format = "PascalCase"
                     THEN CharToUpper(x[1])
                     ELSE CharToLower(x[1])
        IN  casing.converted[1] = <<first>> \o WordsLowered(SubSeq(x, 2, Len(x)))

\* an acronym before a capitalized word, in CamelCase
C17_Witness ==
    /\ casing.pc = "converted"
    /\ casing.lang.variable_format = "CamelCase"
    /\ casing.variable_name = S("BABa")
    /\ casing.converted = Some(S("baBa"))

\* the number of consecutive newlines of s from position i on
RECURSIVE NewlineRun(_, _)
NewlineRun(s, i) == IF i <= Len(s) /\ s[i] = NL THEN 1 + NewlineRun(s, i + 1) ELSE 0

\* s from position i on, every run of two or more blank lines (three or
\* more newlines) collapsed to one blank line, the rest unchanged
RECURSIVE BlankLinesCollapsed(_, _)
BlankLinesCollapsed(s, i) ==
    IF i > Len(s) THEN <<>>
    ELSE IF s[i] = NL
         THEN LET k == NewlineRun(s, i)
              IN  (IF k >= 3 THEN <<NL, NL>> ELSE SubSeq(s, i, i + k - 1))
                      \o BlankLinesCollapsed(s, i + k)
         ELSE <<s[i]>> \o BlankLinesCollapsed(s, i + 1)

\* C18: the text collected for a command is its rendered text with one
\* newline appended and every run of two or more consecutive blank lines, of
\* any length, collapsed to a single blank line; a text without such a run
\* is unchanged.
C18_BlankLinesCollapsed ==
    rendering.pc /= "idle" =>
        \A k \in DOMAIN rendering.commands :
            rendering.commands[k] = BlankLinesCollapsed(rendering.strs[k] \o <<NL>>, 1)

\* the template of each kind of command
KindTemplate ==
    [Read |-> "read", Write |-> "write", Loop |-> "loop", LoopLine |-> "loopline"]

\* the number of template calls that the first k commands take: a Loop
\* takes one for its body and one for itself
RECURSIVE CallsUpTo(_, _)
CallsUpTo(cs, k) ==
    IF k = 0 THEN 0
    ELSE CallsUpTo(cs, k - 1) + (IF cs[k].cmd = "Loop" THEN 2 ELSE 1)

\* the text of a command, from the call of its template
TextOfCall(cmd, call) ==
    IF cmd.cmd = "Read" THEN trim_end(call.out[1]) ELSE call.out[1]

\* C19: the main template receives one text per command of the stub, in the
\* order of the commands, each made from the command's own template call
\* alone; the body of a Loop is rendered just before the loop template, which
\* receives the count and the lines of the body's text in order.
C19_RenderOrder ==
    rendering.pc = "done" =>
        LET cs == stub.commands
            calls == rendering.calls
            n == Len(cs)
            main == calls[Len(calls)]
        IN  /\ Len(calls) = CallsUpTo(cs, n) + 1
            /\ main.template = template_path("main")
            /\ Len(main.context.commands) = n
            /\ \A k \in 1..n :
                  LET c == CallsUpTo(cs, k)
                  IN  /\ calls[c].template = template_path(KindTemplate[cs[k].cmd])
                      /\ main.context.commands[k]
                            = format_command(TextOfCall(cs[k], calls[c]))
                      /\ cs[k].cmd = "Write" =>
                            calls[c].context.messages = lines(cs[k].message)
                      /\ cs[k].cmd = "Loop" =>
                            /\ calls[c - 1].template
                                  = template_path(KindTemplate[cs[k].command.cmd])
                            /\ calls[c].context.count = cs[k].count
                            /\ calls[c].context.inner
                                  = lines(TextOfCall(cs[k].command, calls[c - 1]))

\* a Loop and a Write rendered to different texts, the body of the Loop to
\* two lines
C19_Witness ==
    /\ rendering.pc = "done"
    /\ Len(stub.commands) = 2
    /\ stub.commands[1].cmd = "Loop"
    /\ stub.commands[2].cmd = "Write"
    /\ rendering.commands[1] /= rendering.commands[2]
    /\ Len(rendering.calls[2].context.inner) = 2

\* C20: parse terminates on every token stream, returning a Stub or
\* panicking: a step of the top-level loop or of a sub-parser loop leaves the
\* tokens as they are, never moves the cursor back, and takes at least one
\* token while there is one; without one, the loop is left.
C20_ParseTerminates ==
    /\ [][Parsing =>
            /\ tokens' = tokens
            /\ pos' >= pos
            /\ HasNext => pos' > pos
            /\ ~HasNext => (pos' = pos /\ pc' /= pc)]_vars
    /\ [](Parsing => <>Finished)

\* parse has returned a Stub with a command, every token taken
C20_Witness ==
    /\ pc = "done"
    /\ Len(tokens) >= 5
    /\ pos = Len(tokens) + 1
    /\ stub.commands /= <<>>
    /\ stub.input_comments /= <<>>

\* ---- the commands of the stub ----

\* the sub-parser the top-level loop of parse is waiting for: the frame just
\* above parse in the call stack, "none" between two dispatches
Dispatched ==
    IF Parsing /\ pc /= "parse" THEN Append(stack, pc)[2] ELSE "none"

CommandKeywords == {S("read"), S("write"), S("loop"), S("loopline")}
CommandParsers == {"parse_read", "parse_write", "parse_loop", "parse_loopline"}

\* the sub-parser of a command keyword, and the kind of Cmd it returns
ParserOf(keyword) ==
    CASE keyword = S("read") -> "parse_read"
      [] keyword = S("write") -> "parse_write"
      [] keyword = S("loop") -> "parse_loop"
      [] keyword = S("loopline") -> "parse_loopline"
KindOf(p) ==
    CASE p = "parse_read" -> "Read"
      [] p = "parse_write" -> "Write"
      [] p = "parse_loop" -> "Loop"
      [] p = "parse_loopline" -> "LoopLine"

Kinds(commands) == [i \in DOMAIN commands |-> commands[i].cmd]

\* the bodies of a loop: the keyword after the count belongs to the Loop, a
\* keyword on a later line is dispatched by parse
LoopBodyKinds ==
    {[text |-> S("read N:int\n"), after |-> <<>>],
     [text |-> S("read W:word(5) x:float\nwrite Hello\n"), after |-> <<"Write">>],
     [text |-> S("write Hello\n"), after |-> <<>>],
     [text |-> S("write a\nb\n\nread N:int\n"), after |-> <<"Read">>]}

\* a text block after write, OUTPUT or STATEMENT, with the word read inside,
\* alone or followed by a blank line and a read
BlockCommandCases ==
    {[text |-> BlockLineText(h, body, e),
      kinds |-> (IF h = S("write ") THEN <<"Write">> ELSE <<>>)
                \o (IF e = S("") THEN <<>> ELSE <<"Read">>)] :
        h \in LineHeads, body \in BlockBodies, e \in LineEnds}

LoopCommandCases ==
    {[text |-> S("loop") \o s1 \o c \o s2 \o b.text,
      kinds |-> <<"Loop">> \o b.after] :
        s1 \in LoopSeps, c \in LoopCounts, s2 \in LoopSeps, b \in LoopBodyKinds}

LoopLineTexts == {t \in LoopTexts : MatchAt(t, 1, S("loopline"))}

\* C21: stub.commands holds one Cmd for each read, write, loop or loopline
\* keyword dispatched by the top-level loop of parse, in the order of the
\* dispatches: a dispatch, and every step of a sub-parser, leaves the commands
\* as they are; the return of the sub-parser of a command keyword appends
\* exactly one Cmd, of the kind of that keyword; the return from OUTPUT,
\* INPUT or STATEMENT, and a skipped newline, leave the commands as they are.
\* A keyword inside a text block, or as the body of a loop, is taken by the
\* sub-parser that is running and adds no command.
C21_CommandsFrame ==
    /\ [][/\ (pc = "parse" /\ Dispatched' /= "none")
             => /\ stub'.commands = stub.commands
                /\ (Dispatched' \in CommandParsers) = (token \in CommandKeywords)
                /\ token \in CommandKeywords => Dispatched' = ParserOf(token)
          /\ (Dispatched /= "none" /\ Dispatched' /= "none")
             => /\ stub'.commands = stub.commands
                /\ (Dispatched' \in CommandParsers) = (Dispatched \in CommandParsers)
                /\ Dispatched \in CommandParsers => Dispatched' = Dispatched
          /\ (Dispatched /= "none" /\ pc' = "parse")
             => IF Dispatched \in CommandParsers
                THEN /\ Len(stub'.commands) = Len(stub.commands) + 1
                     /\ SubSeq(stub'.commands, 1, Len(stub.commands)) = stub.commands
                     /\ stub'.commands[Len(stub'.commands)].cmd = KindOf(Dispatched)
                ELSE stub'.commands = stub.commands
          /\ (Dispatched = "none" /\ Dispatched' = "none")
             => stub'.commands = stub.commands]_vars
    /\ [](pc = "done" =>
            /\ \A c \in BlockCommandCases \cup LoopCommandCases :
                 text = c.text => Kinds(stub.commands) = c.kinds
            /\ text \in LoopLineTexts =>
                 (stub.commands /= <<>> /\ stub.commands[1].cmd = "LoopLine"))

\* parse has returned a Stub whose output comment holds the word read, taken
\* inside the text block of OUTPUT, and whose only command is the Read
\* dispatched after the blank line
C21_Witness ==
    /\ pc = "done"
    /\ contains(stub.output_comment, S("read"))
    /\ Kinds(stub.commands) = <<"Read">>

====
